---- MODULE Spec2Model ----
(***************************************************************************)
(* ParallelOptimizer (src/core/optimisers.py): a pool of optimiser         *)
(* instances whose evaluation requests are merged into one batch, with a   *)
(* ledger (_parallel_id, _parallel_x) that routes the results back to the  *)
(* instances according to a static sharing matrix.                         *)
(*                                                                         *)
(* Instances, cost objects and points of a round are indexed from 0, as in *)
(* the source.  A parameter point is a tuple of nb_params angles; the      *)
(* angle 2*pi is discretised to Period lattice steps.  A bound circuit is  *)
(* the record of the id it was named with, the point bound to it and the   *)
(* cost object whose measurement circuits it comes from.  A cost value is  *)
(* the pair <<cost object, circuit id>> it was decoded from.               *)
(***************************************************************************)
EXTENDS Integers, Sequences, FiniteSets, TLC

\* ---- bounds of the model ------------------------------------------------
MaxN == 3          \* at most this many cost objects / instances
MaxNbInit == 2     \* nb_init is 1 or MaxNbInit
MaxCalls == 3      \* a free caller makes at most this many method calls
MaxIter == 3       \* the rounds of the driver script (NB_ITER)
MaxPool == 6       \* cost objects handed to a constructor call on its own

Period == 8                    \* lattice steps per 2*pi
Dims == {1, 2}                 \* nb_params of the ansatz
Seeds == {0, 1}                \* the draws of one call are fixed by a seed
Methods == {"independent", "shared", "left", "right"}
BadMethods == {"random1", "random2", "bogus"}

VARIABLES
    attrs,            \* the attributes __init__ has set on self
    method,           \* self.method
    nb_cost,          \* len(self.cost_objs)
    nb_params,        \* cost_objs[i].ansatz.nb_params
    share_init,       \* self._share_init
    nb_init,          \* self.nb_init
    optim_list,       \* self.optim_list: i -> [X, Y, fits]
    sharing_matrix,   \* self._sharing_matrix
    circs_to_exec,    \* self.circs_to_exec
    parallel_x,       \* self._parallel_x
    parallel_id,      \* self._parallel_id
    last_results_obj, \* self._last_results_obj
    initialised,      \* self._initialised
    next_id,          \* ids handed out so far by ut.gen_random_str
    err,              \* exception raised by the last call, or "none"
    events,           \* collaborator calls made by the last call, in order
    history,          \* the calls made so far: [op, err, id0, x_given, x_len]
    pc,               \* "free", or the call the driver script makes next
    peer,             \* another ParallelOptimizer of the same process, or None
    bo                \* a BayesianOptim object on its own, or None

vars == <<attrs, method, nb_cost, nb_params, share_init, nb_init,
          optim_list, sharing_matrix, circs_to_exec, parallel_x, parallel_id,
          last_results_obj, initialised, next_id, err, events, history, pc,
          peer, bo>>

\* what no method of self assigns after __init__
config == <<attrs, sharing_matrix, initialised, peer, bo>>

\* ---- values --------------------------------------------------------------
None == [isNone |-> TRUE]
Some(v) == [isNone |-> FALSE, val |-> v]

EmptyMap == [k \in {} |-> 0]
Put(m, k, v) == (k :> v) @@ m

Idx(n) == 0 .. (n - 1)

\* a point of the domain with first coordinate c and the others 0
Pt(c, d) == [k \in 1..d |-> IF k = 1 THEN c % Period ELSE 0]

\* ---- pure helpers --------------------------------------------------------
RECURSIVE SumSeq(_)
SumSeq(s) == IF s = <<>> THEN 0 ELSE Head(s) + SumSeq(Tail(s))

Min2(a, b) == IF a <= b THEN a ELSE b

\* ut.gen_random_str: a token no earlier call has returned
gen_random_str(nid) == nid

\* ---- _gen_sharing_matrix --------------------------------------------------
\* as SharedTuples, with generator and point taken from the consumer's row
SharedTuples_own(n) ==
    [k \in 1..(n * n) |->
        LET ii == (k - 1) \div n
            jj == (k - 1) % n
        IN  <<ii, ii, jj>>]

SharedTuples(n) ==
    [k \in 1..(n * n) |->
        LET ii == (k - 1) \div n
            jj == (k - 1) % n
        IN  <<ii, jj, jj>>]

\* as IndependentTuples, every instance reading its right neighbour
IndependentTuples_neighbour(n) == [k \in 1..n |-> <<k - 1, k % n, k % n>>]

IndependentTuples(n) == [k \in 1..n |-> <<k - 1, k - 1, k - 1>>]

\* as LeftTuples, with the comparison of 'right'
LeftTuples_upper(n) ==
    [k \in 1..(n * n) |->
        LET consumer_idx == (k - 1) \div n
            generator_idx == (k - 1) % n
        IN  IF consumer_idx <= generator_idx
            THEN <<consumer_idx, generator_idx, generator_idx>>
            ELSE <<consumer_idx, consumer_idx, generator_idx>>]

LeftTuples(n) ==
    [k \in 1..(n * n) |->
        LET consumer_idx == (k - 1) \div n
            generator_idx == (k - 1) % n
        IN  IF consumer_idx >= generator_idx
            THEN <<consumer_idx, generator_idx, generator_idx>>
            ELSE <<consumer_idx, consumer_idx, generator_idx>>]

\* as RightTuples, without padding: the other branch reads the generator too
RightTuples_unpadded(n) ==
    [k \in 1..(n * n) |->
        LET consumer_idx == (k - 1) \div n
            generator_idx == (k - 1) % n
        IN  <<consumer_idx, generator_idx, generator_idx>>]

\* as RightTuples, with the comparison of 'left'
RightTuples_lower(n) ==
    [k \in 1..(n * n) |->
        LET consumer_idx == (k - 1) \div n
            generator_idx == (k - 1) % n
        IN  IF consumer_idx >= generator_idx
            THEN <<consumer_idx, generator_idx, generator_idx>>
            ELSE <<consumer_idx, consumer_idx, generator_idx>>]

RightTuples(n) ==
    [k \in 1..(n * n) |->
        LET consumer_idx == (k - 1) \div n
            generator_idx == (k - 1) % n
        IN  IF consumer_idx <= generator_idx
            THEN <<consumer_idx, generator_idx, generator_idx>>
            ELSE <<consumer_idx, consumer_idx, generator_idx>>]

gen_sharing_matrix(n, m) ==
    CASE m = "shared" -> SharedTuples(n)
      [] m = "independent" -> IndependentTuples(n)
      [] m = "left" -> LeftTuples(n)
      [] m = "right" -> RightTuples(n)

\* ---- _gen_optim_list ------------------------------------------------------
\* one freshly constructed optimiser per cost object, holding no data
NewOptim == [X |-> <<>>, Y |-> <<>>, fits |-> 0]

gen_optim_list(n) == [i \in Idx(n) |-> NewOptim]

\* ---- __init__ --------------------------------------------------------------
AllAttrs == {"_prefix", "cost_objs", "optimizer", "optimizer_args", "method",
             "_share_init", "nb_init", "nb_optim", "optim_list",
             "_sharing_matrix", "circs_to_exec", "_parallel_x", "_parallel_id",
             "_last_results_obj", "_initialised"}

\* the exception __init__ leaves with for this method argument: the first
\* test catches every value outside the four modes, and its print names
\* sys.stderr in a module that never imports sys
InitError(m) == IF m \notin Methods THEN "NameError" ELSE "none"

Constructed == attrs = AllAttrs

Constructor ==
    \E m \in Methods \cup BadMethods, n \in 1..MaxN, d \in Dims,
       s \in BOOLEAN, b \in {1, MaxNbInit} :
        /\ method = m
        /\ nb_cost = n
        /\ nb_params = d
        /\ share_init = s
        /\ nb_init = b
        /\ err = InitError(m)
        /\ attrs = IF InitError(m) = "none" THEN AllAttrs ELSE {"_prefix"}
        /\ optim_list = IF InitError(m) = "none" THEN gen_optim_list(n) ELSE EmptyMap
        /\ sharing_matrix = IF InitError(m) = "none" THEN gen_sharing_matrix(n, m) ELSE <<>>
        /\ circs_to_exec = None
        /\ parallel_x = EmptyMap
        /\ parallel_id = EmptyMap
        /\ last_results_obj = None
        /\ initialised = FALSE
        /\ next_id = 0
        /\ events = <<>>
        /\ history = <<>>

\* a caller bound to no protocol
Init == Constructor /\ pc = "free" /\ peer = None /\ bo = None

\* the script of src/optim/test_optim_paralell.py: gen_init_circuits,
\* init_optimisers, then NB_ITER times next_evaluation_circuits and update,
\* each on the results of executing circs_to_exec; an exception ends it
DriverInit == Constructor /\ pc = "gen_init_circuits" /\ peer = None /\ bo = None

\* a caller that runs rounds on points of its own: every request is made with
\* x_new, of one point per cost object or one fewer or one more
SupplyInit == Constructor /\ pc = "supply" /\ peer = None /\ bo = None

\* the call ParallelOptimizer(cost_objs, ..., method, share_init, nb_init) about
\* to run: the arguments are chosen, self has no attribute yet
Unconstructed ==
    \E m \in Methods \cup BadMethods, n \in 1..MaxPool, d \in Dims,
       s \in BOOLEAN, b \in {1, MaxNbInit} :
        /\ method = m
        /\ nb_cost = n
        /\ nb_params = d
        /\ share_init = s
        /\ nb_init = b
        /\ err = "none"
        /\ attrs = {}
        /\ optim_list = EmptyMap
        /\ sharing_matrix = <<>>
        /\ circs_to_exec = None
        /\ parallel_x = EmptyMap
        /\ parallel_id = EmptyMap
        /\ last_results_obj = None
        /\ initialised = FALSE
        /\ next_id = 0
        /\ events = <<>>
        /\ history = <<>>
        /\ pc = "__init__"
        /\ peer = None /\ bo = None

\* __init__ as a step: _prefix is set, the method test raises or passes, and
\* on passing the inputs are stored and the assets are made
construct ==
    /\ pc = "__init__"
    /\ err' = InitError(method)
    /\ attrs' = IF InitError(method) = "none" THEN AllAttrs ELSE {"_prefix"}
    /\ optim_list' = IF InitError(method) = "none"
                     THEN gen_optim_list(nb_cost) ELSE optim_list
    /\ sharing_matrix' = IF InitError(method) = "none"
                         THEN gen_sharing_matrix(nb_cost, method) ELSE sharing_matrix
    /\ pc' = IF InitError(method) = "none" THEN "constructed" ELSE "aborted"
    /\ UNCHANGED <<method, nb_cost, nb_params, share_init, nb_init, circs_to_exec,
                   parallel_x, parallel_id, last_results_obj, initialised,
                   next_id, events, history, peer, bo>>

ConstructSpec == Unconstructed /\ [][construct]_vars

NbUpdates == Cardinality({k \in 1..Len(history) : history[k].op = "update"})

CanCall(op) ==
    /\ Constructed
    /\ IF pc \in {"free", "supply"} THEN Len(history) < MaxCalls ELSE pc = op

PcAfter(op, e) ==
    IF pc \in {"free", "supply"} THEN pc
    ELSE IF e # "none" THEN "aborted"
    ELSE CASE op = "gen_init_circuits" -> "init_optimisers"
           [] op = "init_optimisers" ->
                 IF MaxIter > 0 THEN "next_evaluation_circuits" ELSE "done"
           [] op = "next_evaluation_circuits" -> "update"
           [] op = "update" ->
                 IF NbUpdates + 1 < MaxIter THEN "next_evaluation_circuits" ELSE "done"

Call(op, e, given) ==
    [op |-> op, err |-> e, id0 |-> next_id, x_given |-> given, x_len |-> 0]

\* ---- the executor and the decoder (collaborators) --------------------------
\* the raw results of executing a list of bound circuits, keyed by circuit id
Execute(circs) ==
    IF circs.isNone THEN {} ELSE {circs.val[k].id : k \in 1..Len(circs.val)}

\* cost_obj.evaluate_cost(results_obj, name): the value cost object cst reads
\* from the results of the circuits named name
Decodable(results, name) == name \in results
evaluate_cost(cst, results, name) == <<cst, name>>

\* ---- _cross_evaluation ------------------------------------------------------
\* as cross_evaluation, decoding with the cost object of the requester
cross_evaluation_requester(cst_eval_idx, optim_requester_idx, point_idx, results, px, pid) ==
    LET key == <<optim_requester_idx, point_idx>> IN
    IF key \notin DOMAIN pid \/ key \notin DOMAIN px
    THEN [err |-> "KeyError"]
    ELSE IF ~Decodable(results, pid[key])
    THEN [err |-> "ResultError"]
    ELSE [err |-> "none", x |-> px[key],
          y |-> evaluate_cost(optim_requester_idx, results, pid[key])]

\* as cross_evaluation, reading some recorded entry when the requested one is absent
cross_evaluation_tolerant(cst_eval_idx, optim_requester_idx, point_idx, results, px, pid) ==
    LET asked == <<optim_requester_idx, point_idx>>
        known == DOMAIN pid \cap DOMAIN px
        key == IF asked \notin known /\ known # {}
               THEN CHOOSE k \in known : TRUE ELSE asked
    IN
    IF key \notin DOMAIN pid \/ key \notin DOMAIN px
    THEN [err |-> "KeyError"]
    ELSE IF ~Decodable(results, pid[key])
    THEN [err |-> "ResultError"]
    ELSE [err |-> "none", x |-> px[key],
          y |-> evaluate_cost(cst_eval_idx, results, pid[key])]

cross_evaluation(cst_eval_idx, optim_requester_idx, point_idx, results, px, pid) ==
    LET key == <<optim_requester_idx, point_idx>> IN
    IF key \notin DOMAIN pid \/ key \notin DOMAIN px
    THEN [err |-> "KeyError"]
    ELSE IF ~Decodable(results, pid[key])
    THEN [err |-> "ResultError"]
    ELSE [err |-> "none", x |-> px[key],
          y |-> evaluate_cost(cst_eval_idx, results, pid[key])]

\* as RouteEntries, refitting an instance after each observation appended to it
RECURSIVE RouteEntries_eager(_, _, _, _, _, _, _)
RouteEntries_eager(k, matrix, ol, ev, results, px, pid) ==
    IF k > Len(matrix) THEN [err |-> "none", optim_list |-> ol, events |-> ev]
    ELSE LET evl == matrix[k][1]
             r == cross_evaluation(evl, matrix[k][2], matrix[k][3], results, px, pid)
         IN  IF r.err # "none"
             THEN [err |-> r.err, optim_list |-> ol, events |-> ev]
             ELSE RouteEntries_eager(k + 1, matrix,
                      [ol EXCEPT ![evl].X = Append(@, r.x), ![evl].Y = Append(@, r.y),
                                 ![evl].fits = @ + 1],
                      ev \o <<(<<"append", evl>>), (<<"refit", evl>>)>>, results, px, pid)

\* as RouteEntries, stacking each new observation above the ones held
RECURSIVE RouteEntries_prepend(_, _, _, _, _, _, _)
RouteEntries_prepend(k, matrix, ol, ev, results, px, pid) ==
    IF k > Len(matrix) THEN [err |-> "none", optim_list |-> ol, events |-> ev]
    ELSE LET evl == matrix[k][1]
             r == cross_evaluation(evl, matrix[k][2], matrix[k][3], results, px, pid)
         IN  IF r.err # "none"
             THEN [err |-> r.err, optim_list |-> ol, events |-> ev]
             ELSE RouteEntries_prepend(k + 1, matrix,
                      [ol EXCEPT ![evl].X = <<r.x>> \o @, ![evl].Y = <<r.y>> \o @],
                      Append(ev, <<"append", evl>>), results, px, pid)

\* the loop `for evl, req, par in matrix` of update and init_optimisers, from
\* entry k on: stops at the first entry whose routing raises
RECURSIVE RouteEntries(_, _, _, _, _, _, _)
RouteEntries(k, matrix, ol, ev, results, px, pid) ==
    IF k > Len(matrix) THEN [err |-> "none", optim_list |-> ol, events |-> ev]
    ELSE LET evl == matrix[k][1]
             r == cross_evaluation(evl, matrix[k][2], matrix[k][3], results, px, pid)
         IN  IF r.err # "none"
             THEN [err |-> r.err, optim_list |-> ol, events |-> ev]
             ELSE RouteEntries(k + 1, matrix,
                      [ol EXCEPT ![evl].X = Append(@, r.x), ![evl].Y = Append(@, r.y)],
                      Append(ev, <<"append", evl>>), results, px, pid)

\* the refit of every instance, in list order
RefitAll(n, ol, ev) ==
    [optim_list |-> [i \in Idx(n) |-> [ol[i] EXCEPT !.fits = @ + 1]],
     events |-> ev \o [k \in 1..n |-> <<"refit", k - 1>>]]

\* ---- update ------------------------------------------------------------------
\* as update_result, routing only the entries of points an instance chose itself
update_result_unpadded(n, matrix, ol, results, px, pid) ==
    LET r == RouteEntries(1, SelectSeq(matrix, LAMBDA e : e[2] = e[3]), ol, <<>>,
                          results, px, pid) IN
    IF r.err # "none" THEN r
    ELSE [err |-> "none"] @@ RefitAll(n, r.optim_list, r.events)

\* as update_result, routing to an instance only the points it generated
update_result_own(n, matrix, ol, results, px, pid) ==
    LET r == RouteEntries(1, SelectSeq(matrix, LAMBDA e : e[1] = e[2]), ol, <<>>,
                          results, px, pid) IN
    IF r.err # "none" THEN r
    ELSE [err |-> "none"] @@ RefitAll(n, r.optim_list, r.events)

\* as update_result, giving back the datasets as they were when routing fails
update_result_atomic(n, matrix, ol, results, px, pid) ==
    LET r == RouteEntries(1, matrix, ol, <<>>, results, px, pid) IN
    IF r.err # "none" THEN [err |-> r.err, optim_list |-> ol, events |-> <<>>]
    ELSE [err |-> "none"] @@ RefitAll(n, r.optim_list, r.events)

update_result(n, matrix, ol, results, px, pid) ==
    LET r == RouteEntries(1, matrix, ol, <<>>, results, px, pid) IN
    IF r.err # "none" THEN r
    ELSE [err |-> "none"] @@ RefitAll(n, r.optim_list, r.events)

\* as update, discarding the round it has routed: the ledger and the request
\* list are emptied
update_consuming ==
    /\ CanCall("update")
    /\ LET results == Execute(circs_to_exec)
           r == update_result(nb_cost, sharing_matrix, optim_list, results,
                              parallel_x, parallel_id)
       IN  /\ last_results_obj' = Some(results)
           /\ optim_list' = r.optim_list
           /\ events' = r.events
           /\ err' = r.err
           /\ history' = Append(history, Call("update", r.err, FALSE))
           /\ pc' = PcAfter("update", r.err)
    /\ parallel_x' = EmptyMap
    /\ parallel_id' = EmptyMap
    /\ circs_to_exec' = None
    /\ UNCHANGED <<config, method, nb_cost, nb_params, share_init, nb_init, next_id>>

update ==
    /\ CanCall("update")
    /\ LET results == Execute(circs_to_exec)
           r == update_result(nb_cost, sharing_matrix, optim_list, results,
                              parallel_x, parallel_id)
       IN  /\ last_results_obj' = Some(results)
           /\ optim_list' = r.optim_list
           /\ events' = r.events
           /\ err' = r.err
           /\ history' = Append(history, Call("update", r.err, FALSE))
           /\ pc' = PcAfter("update", r.err)
    /\ UNCHANGED <<config, method, nb_cost, nb_params, share_init, nb_init,
                   circs_to_exec, parallel_x, parallel_id, next_id>>

\* ---- init_optimisers -----------------------------------------------------------
\* as init_sharing_matrix, instance cc reading a shared batch from run cc on
init_sharing_matrix_rotated(n, nb, share) ==
    [k \in 1..(n * nb) |->
        LET cc == (k - 1) \div nb
            run == (k - 1) % nb
        IN  IF share THEN <<cc, 0, (run + cc) % nb>> ELSE <<cc, cc, run>>]

\* as init_sharing_matrix, every instance reading its own batch whatever share is
init_sharing_matrix_own(n, nb, share) ==
    [k \in 1..(n * nb) |->
        LET cc == (k - 1) \div nb
            run == (k - 1) % nb
        IN  <<cc, cc, run>>]

\* the sharing matrix init_optimisers builds for itself
init_sharing_matrix(n, nb, share) ==
    [k \in 1..(n * nb) |->
        LET cc == (k - 1) \div nb
            run == (k - 1) % nb
        IN  IF share THEN <<cc, 0, run>> ELSE <<cc, cc, run>>]

init_result(n, matrix, ol, results, px, pid) ==
    LET r == RouteEntries(1, matrix, ol, <<>>, results, px, pid) IN
    IF r.err # "none" THEN r
    ELSE [err |-> "none"] @@ RefitAll(n, r.optim_list, r.events)

\* as init_optimisers, keeping the matrix it builds as the sharing matrix of self
init_optimisers_stored ==
    /\ CanCall("init_optimisers")
    /\ LET results == Execute(circs_to_exec)
           r == init_result(nb_cost,
                            init_sharing_matrix(nb_cost, nb_init, share_init),
                            optim_list, results, parallel_x, parallel_id)
       IN  /\ last_results_obj' = Some(results)
           /\ optim_list' = r.optim_list
           /\ events' = r.events
           /\ err' = r.err
           /\ history' = Append(history, Call("init_optimisers", r.err, FALSE))
           /\ pc' = PcAfter("init_optimisers", r.err)
    /\ sharing_matrix' = init_sharing_matrix(nb_cost, nb_init, share_init)
    /\ UNCHANGED <<attrs, initialised, peer, bo, method, nb_cost, nb_params, share_init, nb_init,
                   circs_to_exec, parallel_x, parallel_id, next_id>>

init_optimisers ==
    /\ CanCall("init_optimisers")
    /\ LET results == Execute(circs_to_exec)
           r == init_result(nb_cost,
                            init_sharing_matrix(nb_cost, nb_init, share_init),
                            optim_list, results, parallel_x, parallel_id)
       IN  /\ last_results_obj' = Some(results)
           /\ optim_list' = r.optim_list
           /\ events' = r.events
           /\ err' = r.err
           /\ history' = Append(history, Call("init_optimisers", r.err, FALSE))
           /\ pc' = PcAfter("init_optimisers", r.err)
    /\ UNCHANGED <<config, method, nb_cost, nb_params, share_init, nb_init,
                   circs_to_exec, parallel_x, parallel_id, next_id>>

\* ---- recording points in the ledger ---------------------------------------------
\* one bound circuit stands for the measurement circuits of cost object cst
\* named with id and bound to x
Circ(id, x, cst) == [id |-> id, x |-> x, cst |-> cst]

\* record the points pts[1..] under keys[1..], each with a new id, from id nid
RECURSIVE RecordAll(_, _, _, _)
RecordAll(st, keys, pts, k) ==
    IF k > Len(keys) THEN st
    ELSE LET this_id == gen_random_str(st.nid) IN
         RecordAll([px |-> Put(st.px, keys[k], pts[k]),
                    pid |-> Put(st.pid, keys[k], this_id),
                    circs |-> Append(st.circs, Circ(this_id, pts[k], keys[k][1])),
                    nid |-> st.nid + 1],
                   keys, pts, k + 1)

\* ---- gen_init_circuits ------------------------------------------------------------
\* 2*pi*np.random.rand(nb, d) for each cost object of the batch: the draws the
\* model takes, one family of sample matrices per seed
SampleBatches(costs, nb, d) ==
    {[c \in costs |-> [r \in 1..nb |-> Pt(s + c + r - 1, d)]] : s \in Seeds}

\* the cost objects an init batch is generated for
init_cost_list(n, share) == IF share THEN {0} ELSE Idx(n)

init_keys(m, nb) ==
    [k \in 1..(m * nb) |-> <<(k - 1) \div nb, (k - 1) % nb>>]

\* the ledger is written, never emptied
gen_init_result(px, pid, nid, m, nb, points) ==
    RecordAll([px |-> px, pid |-> pid, circs |-> <<>>, nid |-> nid],
              init_keys(m, nb),
              [k \in 1..(m * nb) |-> points[(k - 1) \div nb][((k - 1) % nb) + 1]],
              1)

gen_init_circuits ==
    /\ CanCall("gen_init_circuits")
    /\ \E points \in SampleBatches(init_cost_list(nb_cost, share_init),
                                    nb_init, nb_params) :
         LET m == Cardinality(init_cost_list(nb_cost, share_init))
             r == gen_init_result(parallel_x, parallel_id, next_id, m, nb_init, points)
         IN  /\ parallel_x' = r.px
             /\ parallel_id' = r.pid
             /\ next_id' = r.nid
             /\ circs_to_exec' = Some(r.circs)
    /\ err' = "none"
    /\ events' = <<>>
    /\ history' = Append(history, Call("gen_init_circuits", "none", FALSE))
    /\ pc' = PcAfter("gen_init_circuits", "none")
    /\ UNCHANGED <<config, method, nb_cost, nb_params, share_init, nb_init,
                   optim_list, last_results_obj>>

\* ---- _get_padding_circuits --------------------------------------------------------
Sq(a) == a * a

\* _find_min_dist, squared: per coordinate the least of the three shifts
find_min_dist2(a, b) ==
    SumSeq([k \in 1..Len(a) |->
        Min2(Min2(Sq(a[k] - b[k]), Sq((a[k] + Period) - b[k])),
             Sq((a[k] - Period) - b[k]))])

\* np.random.normal(size=d), normalised: the unit directions the lattice holds
Directions(d) ==
    {[k \in 1..d |-> IF k = a THEN sg ELSE 0] : a \in 1..d, sg \in {1, 0 - 1}}

\* the direction the model draws under seed s: along the first axis, or
\* against the last one
DirectionOf(s, d) ==
    IF s % 2 = 1 THEN [k \in 1..d |-> IF k = 1 THEN 1 ELSE 0]
    ELSE [k \in 1..d |-> IF k = d THEN 0 - 1 ELSE 0]

\* the direction u scaled to length sqrt(dist2)
Root(dist2) == CHOOSE t \in 0..dist2 : t * t = dist2
random_displacement(u, dist2) == [k \in 1..Len(u) |-> u[k] * Root(dist2)]

\* np.mod(generator_pt + random_displacement, 2*pi)
new_pt(generator_pt, displacement) ==
    [k \in 1..Len(generator_pt) |-> (generator_pt[k] + displacement[k]) % Period]

padding_pt(generator_pt, pt, u) ==
    new_pt(generator_pt, random_displacement(u, find_min_dist2(generator_pt, pt)))

NeedsPadding(e) == e[1] = e[2] /\ e[2] # e[3]

\* as get_padding_circuits, recording each padding point under the key
\* (pt_idx, requester_idx)
RECURSIVE get_padding_circuits_swapped(_, _, _, _)
get_padding_circuits_swapped(k, matrix, u, st) ==
    IF k > Len(matrix) THEN [err |-> "none"] @@ st
    ELSE LET requester_idx == matrix[k][2]
             pt_idx == matrix[k][3]
         IN  IF ~NeedsPadding(matrix[k])
             THEN get_padding_circuits_swapped(k + 1, matrix, u, st)
             ELSE IF <<requester_idx, requester_idx>> \notin DOMAIN st.px
                     \/ <<pt_idx, pt_idx>> \notin DOMAIN st.px
             THEN [err |-> "KeyError"] @@ st
             ELSE get_padding_circuits_swapped(k + 1, matrix, u,
                      RecordAll(st, <<(<<pt_idx, requester_idx>>)>>,
                                <<padding_pt(st.px[<<requester_idx, requester_idx>>],
                                             st.px[<<pt_idx, pt_idx>>], u)>>, 1))

\* the loop over the sharing matrix from entry k on, with the direction u drawn
\* for the padding points.  A read of a diagonal point that was never recorded
\* raises.
RECURSIVE get_padding_circuits(_, _, _, _)
get_padding_circuits(k, matrix, u, st) ==
    IF k > Len(matrix) THEN [err |-> "none"] @@ st
    ELSE LET requester_idx == matrix[k][2]
             pt_idx == matrix[k][3]
         IN  IF ~NeedsPadding(matrix[k])
             THEN get_padding_circuits(k + 1, matrix, u, st)
             ELSE IF <<requester_idx, requester_idx>> \notin DOMAIN st.px
                     \/ <<pt_idx, pt_idx>> \notin DOMAIN st.px
             THEN [err |-> "KeyError"] @@ st
             ELSE get_padding_circuits(k + 1, matrix, u,
                      RecordAll(st, <<(<<requester_idx, pt_idx>>)>>,
                                <<padding_pt(st.px[<<requester_idx, requester_idx>>],
                                             st.px[<<pt_idx, pt_idx>>], u)>>, 1))

\* every point of the lattice in dimension d
Lattice(d) == [1..d -> 0..(Period - 1)]

IsSquare(q) == \E t \in 0..q : t * t = q

\* next_evaluation_circuits of a 'left' or 'right' object of two instances, at
\* its call of _get_padding_circuits: the ledger holds the two points of the
\* round, any two points of the lattice whose distance the lattice holds
PaddingInit ==
    \E m \in {"left", "right"}, d \in Dims :
      \E g \in Lattice(d), p \in Lattice(d) :
        LET own == RecordAll([px |-> EmptyMap, pid |-> EmptyMap, circs |-> <<>>, nid |-> 0],
                             <<(<<0, 0>>), (<<1, 1>>)>>, <<g, p>>, 1)
        IN  /\ IsSquare(find_min_dist2(g, p))
            /\ method = m
            /\ nb_cost = 2
            /\ nb_params = d
            /\ share_init = TRUE
            /\ nb_init = 1
            /\ err = "none"
            /\ attrs = AllAttrs
            /\ optim_list = gen_optim_list(2)
            /\ sharing_matrix = gen_sharing_matrix(2, m)
            /\ circs_to_exec = None
            /\ parallel_x = own.px
            /\ parallel_id = own.pid
            /\ last_results_obj = None
            /\ initialised = FALSE
            /\ next_id = own.nid
            /\ events = <<>>
            /\ history = <<>>
            /\ pc = "_get_padding_circuits"
            /\ peer = None /\ bo = None

\* _get_padding_circuits as a step, with any direction of the lattice drawn
get_padding ==
    /\ pc = "_get_padding_circuits"
    /\ \E u \in Directions(nb_params) :
         LET r == get_padding_circuits(1, sharing_matrix, u,
                      [px |-> parallel_x, pid |-> parallel_id, circs |-> <<>>,
                       nid |-> next_id])
         IN  /\ parallel_x' = r.px
             /\ parallel_id' = r.pid
             /\ next_id' = r.nid
             /\ err' = r.err
    /\ pc' = "padded"
    /\ UNCHANGED <<config, method, nb_cost, nb_params, share_init, nb_init,
                   optim_list, circs_to_exec, last_results_obj, events, history>>

PaddingSpec == PaddingInit /\ [][get_padding]_vars

\* ---- next_evaluation_circuits -------------------------------------------------------
\* the points the instances propose (opt._compute_next_evaluations), each of
\* shape (1, d), are Pt(s * i, d) under seed s: all the same point (seed 0), or
\* neighbours at different points

\* np.atleast_2d(np.squeeze(...)) of the n proposals, each of shape (1, d):
\* the rows zip pairs with the cost objects.  With d = 1 and n > 1 the squeeze
\* leaves one axis and atleast_2d makes it a single row of n values.
squeeze_rows(n, d, props) ==
    IF n > 1 /\ d = 1
    THEN << [k \in 1..n |-> props[k - 1][1]] >>
    ELSE [k \in 1..n |-> props[k - 1]]

\* the x_new the caller may supply: n-1, n or n+1 points
XNewInputs(n, d) ==
    {[k \in 1..len |-> Pt(k, d)] : len \in (n - 1)..(n + 1)}

\* the number of ledger entries the sanity check expects
expected_circuits(n, m) ==
    IF m \in {"independent", "shared"} THEN n ELSE (n * (n + 1)) \div 2

\* as request_result, without the sanity check on the number of entries
request_result_unchecked(n, m, matrix, nid, x_new, u) ==
    LET nb == Min2(n, Len(x_new))
        own == RecordAll([px |-> EmptyMap, pid |-> EmptyMap, circs |-> <<>>, nid |-> nid],
                         [k \in 1..nb |-> <<k - 1, k - 1>>], x_new, 1)
    IN  get_padding_circuits(1, matrix, u, own)

\* as request_result, writing into the ledger of the previous call
request_result_uncleared(n, m, matrix, nid, x_new, u) ==
    LET nb == Min2(n, Len(x_new))
        own == RecordAll([px |-> parallel_x, pid |-> parallel_id, circs |-> <<>>,
                          nid |-> nid],
                         [k \in 1..nb |-> <<k - 1, k - 1>>], x_new, 1)
        r == get_padding_circuits(1, matrix, u, own)
    IN  IF r.err = "none" /\ Cardinality(DOMAIN r.pid) # expected_circuits(n, m)
        THEN [r EXCEPT !.err = "AssertionError"]
        ELSE r

\* as request_result, emptying the id map and not the point map
request_result_idcleared(n, m, matrix, nid, x_new, u) ==
    LET nb == Min2(n, Len(x_new))
        own == RecordAll([px |-> parallel_x, pid |-> EmptyMap, circs |-> <<>>,
                          nid |-> nid],
                         [k \in 1..nb |-> <<k - 1, k - 1>>], x_new, 1)
        r == get_padding_circuits(1, matrix, u, own)
    IN  IF r.err = "none" /\ Cardinality(DOMAIN r.pid) # expected_circuits(n, m)
        THEN [r EXCEPT !.err = "AssertionError"]
        ELSE r

\* the call on rows x_new with direction u: the ledger starts empty, takes one
\* entry (i, i) per pair zip yields, then the padding entries; the sanity check
\* counts the entries
request_result(n, m, matrix, nid, x_new, u) ==
    LET nb == Min2(n, Len(x_new))
        own == RecordAll([px |-> EmptyMap, pid |-> EmptyMap, circs |-> <<>>, nid |-> nid],
                         [k \in 1..nb |-> <<k - 1, k - 1>>], x_new, 1)
        r == get_padding_circuits(1, matrix, u, own)
    IN  IF r.err = "none" /\ Cardinality(DOMAIN r.pid) # expected_circuits(n, m)
        THEN [r EXCEPT !.err = "AssertionError"]
        ELSE r

\* the inputs of one call: the points (proposed, or given by the caller) and
\* the direction drawn for the padding points
RequestInputs(n, d) ==
    {[given |-> FALSE, x_new |-> squeeze_rows(n, d, [i \in Idx(n) |-> Pt(s * i, d)]),
      u |-> DirectionOf(s, d)] : s \in Seeds}
    \cup {[given |-> TRUE, x_new |-> x, u |-> DirectionOf(1, d)] :
              x \in XNewInputs(n, d)}

next_evaluation_circuits ==
    /\ CanCall("next_evaluation_circuits")
    /\ \E in \in RequestInputs(nb_cost, nb_params) :
       LET r == request_result(nb_cost, method, sharing_matrix, next_id, in.x_new, in.u)
       IN
         /\ in.given => pc \in {"free", "supply"}
         /\ (pc = "free" /\ in.given) => Len(in.x_new) = nb_cost
         /\ pc = "supply" => in.given
         /\ parallel_x' = r.px
         /\ parallel_id' = r.pid
         /\ next_id' = r.nid
         /\ circs_to_exec' = IF r.err = "none" THEN Some(r.circs) ELSE circs_to_exec
         /\ err' = r.err
         /\ events' = IF in.given THEN <<>>
                      ELSE [k \in 1..nb_cost |-> <<"propose", k - 1>>]
         /\ history' = Append(history,
                [Call("next_evaluation_circuits", r.err, in.given)
                    EXCEPT !.x_len = IF in.given THEN Len(in.x_new) ELSE 0])
         /\ pc' = PcAfter("next_evaluation_circuits", r.err)
    /\ UNCHANGED <<config, method, nb_cost, nb_params, share_init, nb_init,
                   optim_list, last_results_obj>>

Next ==
    \/ gen_init_circuits
    \/ init_optimisers
    \/ next_evaluation_circuits
    \/ update

Spec == Init /\ [][Next]_vars

DriverSpec == DriverInit /\ [][Next]_vars

SupplyNext ==
    \/ next_evaluation_circuits
    \/ update

SupplySpec == SupplyInit /\ [][SupplyNext]_vars

\* ---- two coordinators in one process -------------------------------------------------
\* the state __init__ gives a coordinator, as a record
NewPeer(m, n, d, s, b) ==
    [method |-> m, nb_cost |-> n, nb_params |-> d, share_init |-> s, nb_init |-> b,
     optim_list |-> gen_optim_list(n),
     sharing_matrix |-> gen_sharing_matrix(n, m),
     circs_to_exec |-> None,
     parallel_x |-> EmptyMap,
     parallel_id |-> EmptyMap,
     last_results_obj |-> None,
     next_id |-> 0,
     err |-> "none",
     log |-> <<>>]

\* the calls the peer's caller makes, in order: one pass of the driver script
PeerScript == <<"gen_init_circuits", "init_optimisers",
                "next_evaluation_circuits", "update">>

\* as PeerCall, routing through the ledger of self, as if the ledger were an
\* attribute of the class
PeerCall_classwide(c, op, s) ==
    LET results == Execute(c.circs_to_exec) IN
    CASE op = "gen_init_circuits" ->
           LET costs == init_cost_list(c.nb_cost, c.share_init)
               points == [k \in costs |-> [r \in 1..c.nb_init |-> Pt(s + k + r - 1, c.nb_params)]]
               r == gen_init_result(c.parallel_x, c.parallel_id, c.next_id,
                                    Cardinality(costs), c.nb_init, points)
           IN  [c EXCEPT !.parallel_x = r.px, !.parallel_id = r.pid, !.next_id = r.nid,
                         !.circs_to_exec = Some(r.circs), !.err = "none"]
      [] op = "init_optimisers" ->
           LET r == init_result(c.nb_cost,
                                init_sharing_matrix(c.nb_cost, c.nb_init, c.share_init),
                                c.optim_list, results, parallel_x, parallel_id)
           IN  [c EXCEPT !.last_results_obj = Some(results),
                         !.optim_list = r.optim_list, !.err = r.err]
      [] op = "next_evaluation_circuits" ->
           LET x_new == squeeze_rows(c.nb_cost, c.nb_params,
                                     [i \in Idx(c.nb_cost) |-> Pt(s * i, c.nb_params)])
               r == request_result(c.nb_cost, c.method, c.sharing_matrix, c.next_id,
                                   x_new, DirectionOf(s, c.nb_params))
           IN  [c EXCEPT !.parallel_x = r.px, !.parallel_id = r.pid, !.next_id = r.nid,
                         !.circs_to_exec = IF r.err = "none" THEN Some(r.circs) ELSE @,
                         !.err = r.err]
      [] op = "update" ->
           LET r == update_result(c.nb_cost, c.sharing_matrix, c.optim_list, results,
                                  parallel_x, parallel_id)
           IN  [c EXCEPT !.last_results_obj = Some(results),
                         !.optim_list = r.optim_list, !.err = r.err]

\* the method op called on coordinator c with the draws of seed s: the same
\* code as the actions of self, on the attributes of c
PeerCall(c, op, s) ==
    LET results == Execute(c.circs_to_exec) IN
    CASE op = "gen_init_circuits" ->
           LET costs == init_cost_list(c.nb_cost, c.share_init)
               points == [k \in costs |-> [r \in 1..c.nb_init |-> Pt(s + k + r - 1, c.nb_params)]]
               r == gen_init_result(c.parallel_x, c.parallel_id, c.next_id,
                                    Cardinality(costs), c.nb_init, points)
           IN  [c EXCEPT !.parallel_x = r.px, !.parallel_id = r.pid, !.next_id = r.nid,
                         !.circs_to_exec = Some(r.circs), !.err = "none"]
      [] op = "init_optimisers" ->
           LET r == init_result(c.nb_cost,
                                init_sharing_matrix(c.nb_cost, c.nb_init, c.share_init),
                                c.optim_list, results, c.parallel_x, c.parallel_id)
           IN  [c EXCEPT !.last_results_obj = Some(results),
                         !.optim_list = r.optim_list, !.err = r.err]
      [] op = "next_evaluation_circuits" ->
           LET x_new == squeeze_rows(c.nb_cost, c.nb_params,
                                     [i \in Idx(c.nb_cost) |-> Pt(s * i, c.nb_params)])
               r == request_result(c.nb_cost, c.method, c.sharing_matrix, c.next_id,
                                   x_new, DirectionOf(s, c.nb_params))
           IN  [c EXCEPT !.parallel_x = r.px, !.parallel_id = r.pid, !.next_id = r.nid,
                         !.circs_to_exec = IF r.err = "none" THEN Some(r.circs) ELSE @,
                         !.err = r.err]
      [] op = "update" ->
           LET r == update_result(c.nb_cost, c.sharing_matrix, c.optim_list, results,
                                  c.parallel_x, c.parallel_id)
           IN  [c EXCEPT !.last_results_obj = Some(results),
                         !.optim_list = r.optim_list, !.err = r.err]

\* the driver of self and the driver of a second coordinator, built on the same
\* cost objects with the same arguments, take turns in any order
PairInit ==
    /\ Constructor
    /\ pc = "gen_init_circuits"
    /\ peer = IF Constructed
              THEN Some(NewPeer(method, nb_cost, nb_params, share_init, nb_init))
              ELSE None
    /\ bo = None

\* the next call of the peer's script, with the draws of seed 1 (its instances
\* ask for different points); an exception ends the script
peer_call ==
    /\ ~peer.isNone
    /\ peer.val.err = "none"
    /\ Len(peer.val.log) < Len(PeerScript)
    /\ LET op == PeerScript[Len(peer.val.log) + 1]
           c == PeerCall(peer.val, op, 1)
       IN  peer' = Some([c EXCEPT !.log = Append(@, <<op, 1>>)])
    /\ UNCHANGED <<attrs, method, nb_cost, nb_params, share_init, nb_init,
                   optim_list, sharing_matrix, circs_to_exec, parallel_x, parallel_id,
                   last_results_obj, initialised, next_id, err, events, history, pc,
                   bo>>

PairNext ==
    \/ Next
    \/ peer_call

PairSpec == PairInit /\ [][PairNext]_vars

\* ---- BayesianOptim: a single optimiser on its own -------------------------------------
\* the state of the coordinator, which no method of a BayesianOptim touches
coordinator == <<attrs, method, nb_cost, nb_params, share_init, nb_init,
                 optim_list, sharing_matrix, circs_to_exec, parallel_x, parallel_id,
                 last_results_obj, initialised, next_id, err, events, history, pc,
                 peer>>

JobSize == 900                 \* circuits of one job, as in _next_evaluation_points
MeasCircuits == {450, 900}     \* len(cost_obj.meas_circuits)

\* the object as __init__ leaves it: the arguments are stored (nb_init is None
\* for the keyword 'max'), _initialised is False, _last_x and _BO are not set.
\* err is the exception of the last call, log the calls made so far.
BayesianOptim_init(nb, jobs, meas, d) ==
    [nb_init |-> nb, init_jobs |-> jobs, nb_meas |-> meas, nb_dims |-> d,
     initialised |-> FALSE, last_x |-> None, BO |-> None,
     err |-> "none", log |-> <<>>]

\* np.random.random(size=size) for direction idx of the domain, under seed s
random_column(s, idx, size) == [r \in 1..size |-> (s * r + idx) % Period]

\* _get_random_points_in_domain: one column per direction, stacked side by side
get_random_points_in_domain(s, d, size) ==
    [r \in 1..size |-> [k \in 1..d |-> random_column(s, k - 1, size)[r]]]

\* _next_evaluation_points: random points while uninitialised, else the
\* attribute BO of self is read, which no method sets (update sets _BO)
next_evaluation_points(o, s) ==
    IF ~o.initialised
    THEN LET size == IF o.nb_init.isNone
                     THEN (o.init_jobs * JobSize) \div o.nb_meas
                     ELSE o.nb_init.val
         IN  [err |-> "none", x |-> get_random_points_in_domain(s, o.nb_dims, size)]
    ELSE [err |-> "AttributeError", x |-> <<>>]

\* _bind_circuits: one bound circuit per point and measurement circuit
bind_circuits(o, x) == Len(x) * o.nb_meas

\* BayesianOptim.next_evaluation_circuits: _last_x is assigned when the points
\* have been obtained; the call returns the bound circuits
BayesianOptim_next_evaluation_circuits(o, s) ==
    LET r == next_evaluation_points(o, s) IN
    [o EXCEPT !.last_x = IF r.err = "none" THEN Some(r.x) ELSE @,
              !.err = r.err,
              !.log = Append(@, [op |-> "next_evaluation_circuits", err |-> r.err,
                                 circs |-> IF r.err = "none"
                                           THEN bind_circuits(o, r.x) ELSE 0])]

\* BayesianOptim.update with a results object whose cost value is y: y_new has a
\* row per row of _last_x, each the value of the same meas_func call.  The
\* uninitialised branch names GPyOpt, which the module never imports nor
\* defines, and raises before anything is assigned; the other branch appends.
BayesianOptim_update(o, y) ==
    LET e == IF o.last_x.isNone THEN "AttributeError"
             ELSE IF ~o.initialised THEN "NameError"
             ELSE "none"
        y_new == [k \in 1..Len(o.last_x.val) |-> y]
    IN  [o EXCEPT !.BO = IF e = "none"
                         THEN Some([X |-> @.val.X \o o.last_x.val,
                                    Y |-> @.val.Y \o y_new])
                         ELSE @,
                  !.err = e,
                  !.log = Append(@, [op |-> "update", err |-> e, circs |-> 0])]

\* a BayesianOptim just constructed, with nb_init 'max' or a number, and no
\* coordinator
BoInit ==
    /\ \E nb \in {None} \cup {Some(k) : k \in 1..MaxNbInit},
          meas \in MeasCircuits, d \in Dims :
         bo = Some(BayesianOptim_init(nb, 1, meas, d))
    /\ method = "independent"
    /\ nb_cost = 1
    /\ nb_params = 1
    /\ share_init = FALSE
    /\ nb_init = 1
    /\ err = "none"
    /\ attrs = {}
    /\ optim_list = EmptyMap
    /\ sharing_matrix = <<>>
    /\ circs_to_exec = None
    /\ parallel_x = EmptyMap
    /\ parallel_id = EmptyMap
    /\ last_results_obj = None
    /\ initialised = FALSE
    /\ next_id = 0
    /\ events = <<>>
    /\ history = <<>>
    /\ pc = "BayesianOptim"
    /\ peer = None

\* the caller of the object makes at most MaxCalls calls, in any order, and
\* goes on after a call that raised
bo_next_evaluation_circuits ==
    /\ ~bo.isNone
    /\ Len(bo.val.log) < MaxCalls
    /\ \E s \in Seeds : bo' = Some(BayesianOptim_next_evaluation_circuits(bo.val, s))
    /\ UNCHANGED coordinator

bo_update ==
    /\ ~bo.isNone
    /\ Len(bo.val.log) < MaxCalls
    /\ \E y \in {0, 1} : bo' = Some(BayesianOptim_update(bo.val, y))
    /\ UNCHANGED coordinator

BoNext ==
    \/ bo_next_evaluation_circuits
    \/ bo_update

BoSpec == BoInit /\ [][BoNext]_vars

\* ---- properties ----------------------------------------------------------------------
Last == history[Len(history)]
LastIs(op) == Len(history) > 0 /\ Last.op = op
LastOk(op) == LastIs(op) /\ Last.err = "none"
Prev == history[Len(history) - 1]

Ledger == DOMAIN parallel_id
PendingIds == Execute(circs_to_exec)

\* the ids the last call handed out
NewIds == IF Len(history) = 0 THEN {} ELSE Last.id0 .. (next_id - 1)

\* C1: when next_evaluation_circuits returns normally the ledger holds n entries
\* in 'independent' and 'shared' mode and n(n+1)/2 in 'left' and 'right' mode,
\* fewer than the sharing matrix wherever the matrix is larger, and the request
\* list returned is the list of those entries; when the call raises, no request
\* of that call is stored or returned.
C1_LedgerCount ==
    LastIs("next_evaluation_circuits") =>
        /\ err = "none" =>
             /\ method \in {"independent", "shared"} =>
                    Cardinality(Ledger) = nb_cost
             /\ method \in {"left", "right"} =>
                    2 * Cardinality(Ledger) = nb_cost * (nb_cost + 1)
             /\ Cardinality(Ledger) <= Len(sharing_matrix)
             /\ (nb_cost > 1 /\ method # "independent") =>
                    Cardinality(Ledger) < Len(sharing_matrix)
             /\ ~circs_to_exec.isNone
             /\ Len(circs_to_exec.val) = Cardinality(Ledger)
             /\ PendingIds = {parallel_id[k] : k \in Ledger}
        /\ err # "none" => PendingIds \cap NewIds = {}

C1_Witness ==
    /\ LastOk("next_evaluation_circuits")
    /\ method = "left" /\ nb_cost = 3
    /\ Cardinality(Ledger) = 6 /\ Len(sharing_matrix) = 9

\* C2: after two calls of next_evaluation_circuits in a row every ledger entry was
\* recorded by the second call (its id is one the second call handed out, and its
\* point is the one bound to the circuit of that id), and when the second call
\* returns normally the ledger has the size of one round.
C2_RoundIsolation ==
    (Len(history) >= 2 /\ LastIs("next_evaluation_circuits")
        /\ Prev.op = "next_evaluation_circuits") =>
        /\ DOMAIN parallel_x = Ledger
        /\ \A k \in Ledger : parallel_id[k] \in NewIds
        /\ \A k1, k2 \in Ledger : parallel_id[k1] = parallel_id[k2] => k1 = k2
        /\ err = "none" =>
             /\ Cardinality(Ledger) =
                    IF method \in {"independent", "shared"} THEN nb_cost
                    ELSE (nb_cost * (nb_cost + 1)) \div 2
             /\ \A k \in Ledger : \E j \in 1..Len(circs_to_exec.val) :
                    /\ circs_to_exec.val[j].id = parallel_id[k]
                    /\ circs_to_exec.val[j].x = parallel_x[k]

C2_Witness ==
    /\ Len(history) >= 2
    /\ LastOk("next_evaluation_circuits")
    /\ Prev.op = "next_evaluation_circuits" /\ Prev.err = "none"
    /\ nb_cost = 3 /\ method = "right"

ConsumerEntries(i) == SelectSeq(sharing_matrix, LAMBDA e : e[1] = i)

IsCall(op) == Len(history') = Len(history) + 1 /\ history'[Len(history')].op = op

Appends == {k \in 1..Len(events) : events[k][1] = "append"}
Refits == {k \in 1..Len(events) : events[k][1] = "refit"}

OkCalls(op) == {k \in 1..Len(history) : history[k].op = op /\ history[k].err = "none"}

\* the ids call k of the history handed out
IdsOf(k) ==
    history[k].id0 .. ((IF k = Len(history) THEN next_id ELSE history[k + 1].id0) - 1)

\* C4: an update that returns normally appends to every instance i, for the
\* entries (i, generator, point) of the sharing matrix in matrix order, the point
\* the ledger holds under (generator, point) and the value cost object i decodes
\* from the id the ledger holds under (generator, point): one observation per
\* entry, and nothing else.
C4_UpdateRouting ==
    [][(IsCall("update") /\ err' = "none") =>
        /\ Cardinality({k \in 1..Len(events') : events'[k][1] = "append"})
               = Len(sharing_matrix)
        /\ \A i \in Idx(nb_cost) :
             LET es == ConsumerEntries(i) IN
             /\ optim_list'[i].X = optim_list[i].X \o
                   [k \in 1..Len(es) |-> parallel_x[<<es[k][2], es[k][3]>>]]
             /\ optim_list'[i].Y = optim_list[i].Y \o
                   [k \in 1..Len(es) |-> <<i, parallel_id[<<es[k][2], es[k][3]>>]>>]
      ]_vars

C4_Witness ==
    /\ LastOk("update")
    /\ method = "left" /\ nb_cost = 3
    /\ Len(optim_list[0].X) = 3
    /\ optim_list[1].Y[1][2] # optim_list[1].Y[2][2]

\* C5: in a run of the driver script every instance holds, after init and k
\* completed rounds, nb_init + k*n observations in 'shared', 'left' and 'right'
\* mode and nb_init + k in 'independent' mode; the instances hold equally many
\* at every idle state.
C5_InSync ==
    (Constructed /\ pc \in {"next_evaluation_circuits", "done"}) =>
        \A i \in Idx(nb_cost) :
            /\ Len(optim_list[i].X) =
                   nb_init + NbUpdates * (IF method = "independent" THEN 1 ELSE nb_cost)
            /\ Len(optim_list[i].Y) = Len(optim_list[i].X)
            /\ Len(optim_list[i].X) = Len(optim_list[0].X)

C5_Witness ==
    /\ pc = "done" /\ NbUpdates = MaxIter
    /\ method = "left" /\ nb_cost = 3
    /\ Len(optim_list[0].X) = nb_init + MaxIter * 3

\* C6: an update or init_optimisers call that returns normally refits every
\* instance exactly once, after the last observation of the call was appended.
C6_RefitBatching ==
    (LastOk("update") \/ LastOk("init_optimisers")) =>
        /\ \A i \in Idx(nb_cost) :
               Cardinality({k \in Refits : events[k][2] = i}) = 1
        /\ \A a \in Appends, r \in Refits : a < r
        /\ Cardinality(Appends) =
               IF LastIs("update") THEN Len(sharing_matrix) ELSE nb_cost * nb_init
        /\ \A i \in Idx(nb_cost) :
               optim_list[i].fits = Cardinality(OkCalls("update"))
                                      + Cardinality(OkCalls("init_optimisers"))

C6_Witness ==
    /\ LastOk("update")
    /\ method = "shared" /\ nb_cost = 3
    /\ Cardinality({k \in Appends : events[k][2] = 2}) = 3

\* C7: an update that follows a completed update, with no request phase in
\* between, appends nothing to the instances.
C7_SingleUpdate ==
    [][(LastOk("update") /\ IsCall("update")) =>
        \A i \in Idx(nb_cost) : optim_list'[i].X = optim_list[i].X]_vars

\* C8: every observation an update appends was decoded from an id that the most
\* recent next_evaluation_circuits call handed out.
C8_LedgerWithinRound ==
    (LastIs("update") /\ Appends # {}) =>
        LET reqs == {k \in 1..Len(history) : history[k].op = "next_evaluation_circuits"}
        IN  /\ reqs # {}
            /\ \A i \in Idx(nb_cost) :
                 LET cnt == Cardinality({k \in Appends : events[k][2] = i})
                     len == Len(optim_list[i].Y)
                 IN  \A q \in (len - cnt + 1)..len :
                        \A r \in reqs : (\A r2 \in reqs : r2 <= r) =>
                            optim_list[i].Y[q][2] \in IdsOf(r)

\* C9: init_optimisers takes effect at most once, and no next_evaluation_circuits
\* or update call is made before an init_optimisers call has returned normally.
C9_InitOnceFirst ==
    /\ Cardinality(OkCalls("init_optimisers")) <= 1
    /\ \A k \in 1..Len(history) :
         history[k].op \in {"next_evaluation_circuits", "update"} =>
             \E j \in OkCalls("init_optimisers") : j < k

\* C10: after gen_init_circuits the ledger holds the entries of that init batch
\* and no other: nb_init of them when share_init holds, n*nb_init otherwise.
C10_InitLedger ==
    LastIs("gen_init_circuits") =>
        /\ \A k \in Ledger : parallel_id[k] \in NewIds
        /\ Cardinality(Ledger) = IF share_init THEN nb_init ELSE nb_cost * nb_init

\* C11: when init_optimisers follows gen_init_circuits as the first two calls, it
\* returns normally and every instance holds exactly nb_init observations: the
\* points recorded under (0, r) when share_init holds and under (i, r) for
\* instance i otherwise, r < nb_init, each with the value the instance's own cost
\* object decodes from the circuits of that point.
C11_InitSlices ==
    (Len(history) = 2 /\ history[1].op = "gen_init_circuits"
        /\ LastIs("init_optimisers")) =>
        /\ err = "none"
        /\ \A i \in Idx(nb_cost) :
             LET src == IF share_init THEN 0 ELSE i IN
             /\ Len(optim_list[i].X) = nb_init
             /\ Len(optim_list[i].Y) = nb_init
             /\ \A r \in 1..nb_init :
                  /\ <<src, r - 1>> \in Ledger
                  /\ optim_list[i].X[r] = parallel_x[<<src, r - 1>>]
                  /\ optim_list[i].Y[r] = <<i, parallel_id[<<src, r - 1>>]>>

C11_Witness ==
    /\ Len(history) = 2 /\ history[1].op = "gen_init_circuits"
    /\ LastOk("init_optimisers")
    /\ share_init /\ nb_cost = 3 /\ nb_init = MaxNbInit
    /\ optim_list[2].X = optim_list[0].X
    /\ optim_list[2].Y # optim_list[0].Y

\* the matrix the last call routed, and its entries whose (requester, point)
\* pair the ledger does not hold
RoutedMatrix ==
    IF Last.op = "update" THEN sharing_matrix
    ELSE init_sharing_matrix(nb_cost, nb_init, share_init)

Misses == {k \in 1..Len(RoutedMatrix) :
              <<RoutedMatrix[k][2], RoutedMatrix[k][3]>> \notin Ledger}

\* C12: an update or init_optimisers call whose matrix names a (requester, point)
\* pair absent from the ledger does not return normally and refits no instance;
\* it appends nothing for the missing entry or any later one, the lookup of the
\* missing entry itself raises KeyError, and every observation appended before
\* it is the point and the id recorded under that entry's own key.
C12_UnknownRequest ==
    ((LastIs("update") \/ LastIs("init_optimisers")) /\ Misses # {}) =>
        LET first == CHOOSE k \in Misses : \A j \in Misses : k <= j IN
        /\ err # "none"
        /\ Refits = {}
        /\ Cardinality(Appends) < first
        /\ Cardinality(Appends) = first - 1 => err = "KeyError"
        /\ \A k \in Appends :
             LET evl == RoutedMatrix[k][1]
                 key == <<RoutedMatrix[k][2], RoutedMatrix[k][3]>>
                 pos == Len(optim_list[evl].X)
                        - Cardinality({j \in Appends : j > k /\ events[j][2] = evl})
             IN  /\ events[k][2] = evl
                 /\ optim_list[evl].X[pos] = parallel_x[key]
                 /\ optim_list[evl].Y[pos][2] = parallel_id[key]

C12_Witness ==
    /\ LastIs("update") /\ err = "KeyError"
    /\ Misses # {} /\ Appends # {}
    /\ nb_cost = 3 /\ method = "left"

\* the assets __init__ makes after the method test
Assets == {"optim_list", "_sharing_matrix", "circs_to_exec", "_parallel_x",
           "_parallel_id", "_last_results_obj"}

\* C13: a constructor call with a method that is none of 'independent', 'shared',
\* 'left', 'right' (such as 'bogus') ends with ValueError, the invalid-topology
\* error, and with none of the optimiser list, sharing matrix, ledger and request
\* list made.
C13_InvalidTopology ==
    (attrs # {} /\ method \notin Methods \cup {"random1", "random2"}) =>
        /\ err = "ValueError"
        /\ attrs \cap Assets = {}
        /\ optim_list = EmptyMap /\ sharing_matrix = <<>>

\* C14: a constructor call with method 'random1' or 'random2' ends with
\* NotImplementedError, which is not the error a call with an unrecognised
\* method such as 'bogus' ends with.
C14_NotImplemented ==
    (attrs # {} /\ method \in {"random1", "random2"}) =>
        /\ err = "NotImplementedError"
        /\ err # InitError("bogus")

\* the entries of a matrix as a set, and the pairs of instance indices
Entries(M) == {M[k] : k \in 1..Len(M)}
Pairs(n) == Idx(n) \X Idx(n)

MatrixOf(m) == pc = "constructed" /\ method = m

\* C15: the 'left' matrix of n instances is the set of (i, j, j) for i >= j
\* together with (i, i, j) for i < j, holds no entry twice, and has exactly n
\* entries for every consumer i.
C15_LeftMatrix ==
    MatrixOf("left") =>
        /\ Entries(sharing_matrix) =
               {<<p[1], p[2], p[2]>> : p \in {q \in Pairs(nb_cost) : q[1] >= q[2]}}
               \cup {<<p[1], p[1], p[2]>> : p \in {q \in Pairs(nb_cost) : q[1] < q[2]}}
        /\ \A k1, k2 \in 1..Len(sharing_matrix) :
               sharing_matrix[k1] = sharing_matrix[k2] => k1 = k2
        /\ \A i \in Idx(nb_cost) :
               Cardinality({k \in 1..Len(sharing_matrix) : sharing_matrix[k][1] = i})
                   = nb_cost

C15_Witness ==
    /\ MatrixOf("left") /\ nb_cost = MaxPool
    /\ <<0, 0, nb_cost - 1>> \in Entries(sharing_matrix)
    /\ <<nb_cost - 1, 0, 0>> \in Entries(sharing_matrix)

\* C16: the 'left' and the 'right' matrix of n instances have exactly n*n entries
\* each, and their entries whose generator is the consumer name exactly n(n+1)/2
\* different (consumer, point) pairs.
C16_MatrixSizes ==
    (MatrixOf("left") \/ MatrixOf("right")) =>
        /\ Len(sharing_matrix) = nb_cost * nb_cost
        /\ 2 * Cardinality({<<e[1], e[3]>> :
                               e \in {f \in Entries(sharing_matrix) : f[1] = f[2]}})
               = nb_cost * (nb_cost + 1)

C16_Witness ==
    /\ MatrixOf("right") /\ nb_cost = MaxPool
    /\ Len(sharing_matrix) = MaxPool * MaxPool
    /\ \E e \in Entries(sharing_matrix) : e[1] = e[2] /\ e[2] # e[3]

\* index k of n instances counted from the other end
Mirror(n, k) == n - 1 - k

C18_SharedMatrix ==
    MatrixOf("shared") =>
        /\ Len(sharing_matrix) = nb_cost * nb_cost
        /\ Entries(sharing_matrix) = {<<p[1], p[2], p[2]>> : p \in Pairs(nb_cost)}

C18_Witness ==
    /\ MatrixOf("shared") /\ nb_cost = MaxPool
    /\ <<0, nb_cost - 1, nb_cost - 1>> \in Entries(sharing_matrix)

\* C19: the 'independent' matrix of n instances has exactly n entries, one
\* (i, i, i) for every instance i.
C19_IndependentMatrix ==
    MatrixOf("independent") =>
        /\ Len(sharing_matrix) = nb_cost
        /\ \A e \in Entries(sharing_matrix) : e[1] = e[2] /\ e[2] = e[3]
        /\ {e[1] : e \in Entries(sharing_matrix)} = Idx(nb_cost)

C19_Witness ==
    /\ MatrixOf("independent") /\ nb_cost = MaxPool
    /\ Len(sharing_matrix) = MaxPool

\* C20: in 'shared' mode a round asks for exactly one point per instance: the
\* ledger and the request list hold the n entries (i, i) and nothing else. The
\* update that follows returns normally and appends to every instance those n
\* points in instance order, each with the value the instance's own cost object
\* decodes, so every instance holds n more observations per round.
C20_SharedRound ==
    (method = "shared" /\ pc # "aborted") =>
        /\ LastOk("next_evaluation_circuits") =>
             /\ Ledger = {<<i, i>> : i \in Idx(nb_cost)}
             /\ Len(circs_to_exec.val) = nb_cost
             /\ \A i \in Idx(nb_cost) : circs_to_exec.val[i + 1].id = parallel_id[<<i, i>>]
        /\ LastIs("update") =>
             /\ err = "none"
             /\ \A i \in Idx(nb_cost) :
                  LET X == optim_list[i].X
                      Y == optim_list[i].Y
                      old == nb_init + (NbUpdates - 1) * nb_cost
                  IN  /\ Len(X) = old + nb_cost
                      /\ Len(Y) = old + nb_cost
                      /\ \A j \in Idx(nb_cost) :
                           /\ X[old + j + 1] = parallel_x[<<j, j>>]
                           /\ Y[old + j + 1] = <<i, parallel_id[<<j, j>>]>>

C20_Witness ==
    /\ method = "shared" /\ nb_cost = 3
    /\ LastOk("update") /\ NbUpdates = 1
    /\ Len(circs_to_exec.val) = 3
    /\ \A i \in Idx(3) : Len(optim_list[i].X) = nb_init + 3

\* C21: in 'independent' mode every update appends to instance i exactly one
\* observation, the point recorded under (i, i) in the round, which is the point
\* instance i itself asked for, valued by i's own cost object from the circuit
\* bound for i; so the observations of i after its init batch are one per round
\* and none of them is a point or a circuit of another instance.
C21_IndependentIsolation ==
    (method = "independent" /\ LastIs("update")) =>
        /\ err = "none"
        /\ \A i \in Idx(nb_cost) :
             LET X == optim_list[i].X
                 Y == optim_list[i].Y
             IN  /\ Cardinality({k \in Appends : events[k][2] = i}) = 1
                 /\ Len(X) = nb_init + NbUpdates
                 /\ Len(Y) = nb_init + NbUpdates
                 /\ X[Len(X)] = parallel_x[<<i, i>>]
                 /\ Y[Len(Y)] = <<i, parallel_id[<<i, i>>]>>
                 /\ \A j \in 1..Len(circs_to_exec.val) :
                        circs_to_exec.val[j].id = Y[Len(Y)][2] =>
                            /\ circs_to_exec.val[j].cst = i
                            /\ circs_to_exec.val[j].x = X[Len(X)]

C21_Witness ==
    /\ method = "independent" /\ nb_cost = 3
    /\ LastOk("update") /\ NbUpdates = 2
    /\ parallel_x[<<0, 0>>] # parallel_x[<<1, 1>>]
    /\ optim_list[0].X[Len(optim_list[0].X)] # optim_list[1].X[Len(optim_list[1].X)]

\* C22: at every point of the life of a constructed object the sharing matrix is
\* the one _gen_sharing_matrix gives for the number of cost objects and the
\* method alone, whatever share_init, nb_init and the data are and whichever
\* calls have been made.
C22_StaticMatrix ==
    Constructed => sharing_matrix = gen_sharing_matrix(nb_cost, method)

C22_Witness ==
    /\ Len(history) = MaxCalls /\ LastOk("update")
    /\ OkCalls("init_optimisers") # {}
    /\ share_init /\ nb_init = MaxNbInit
    /\ method = "left" /\ nb_cost = 2
    /\ sharing_matrix = <<(<<0, 0, 0>>), (<<0, 0, 1>>), (<<1, 0, 0>>), (<<1, 1, 1>>)>>

\* C23: every padding point _get_padding_circuits records for a sharing entry
\* (i, i, j) lies, in the distance that takes every coordinate modulo the
\* period, as far from the point of instance i as the point of instance j does.
C23_PaddingDistance ==
    pc = "padded" =>
        \A k \in 1..Len(sharing_matrix) :
            LET i == sharing_matrix[k][2]
                j == sharing_matrix[k][3]
            IN  NeedsPadding(sharing_matrix[k]) =>
                    find_min_dist2(parallel_x[<<i, j>>], parallel_x[<<i, i>>])
                        = find_min_dist2(parallel_x[<<i, i>>], parallel_x[<<j, j>>])

\* the attributes of self
self_attrs == <<attrs, method, nb_cost, nb_params, share_init, nb_init, optim_list,
                sharing_matrix, circs_to_exec, parallel_x, parallel_id,
                last_results_obj, initialised, next_id>>

\* coordinator c0 after the calls of log, made on it alone
RECURSIVE Replay(_, _, _)
Replay(c, log, k) ==
    IF k > Len(log) THEN c
    ELSE Replay([PeerCall(c, log[k][1], log[k][2]) EXCEPT !.log = Append(@, log[k])],
                log, k + 1)

C25_ProposeOrSupply ==
    LastIs("next_evaluation_circuits") =>
        /\ Last.x_given =>
             /\ events = <<>>
             /\ err = "none" =>
                    \A i \in Idx(nb_cost) :
                        /\ <<i, i>> \in Ledger
                        /\ parallel_x[<<i, i>>] = Pt(i + 1, nb_params)
        /\ ~Last.x_given =>
             /\ events = [k \in 1..nb_cost |-> <<"propose", k - 1>>]
             /\ \E s \in Seeds : \A i \in Idx(nb_cost) :
                    /\ <<i, i>> \in Ledger
                    /\ parallel_x[<<i, i>>] = Pt(s * i, nb_params)

\* C26: a next_evaluation_circuits call given an x_new that has not exactly one
\* point per cost object, fewer or more, ends with the AssertionError of the
\* sanity check and stores no request list, in every sharing mode.
C26_XNewLength ==
    (LastIs("next_evaluation_circuits") /\ Last.x_given /\ Last.x_len # nb_cost) =>
        /\ err = "AssertionError"
        /\ PendingIds \cap NewIds = {}

\* the entries of the sharing matrix whose routing raises on the pending
\* results: the ledger misses the key, or the results hold no circuit of its id
FailingEntries ==
    {k \in 1..Len(sharing_matrix) :
        LET key == <<sharing_matrix[k][2], sharing_matrix[k][3]>> IN
        key \notin Ledger \/ parallel_id[key] \notin PendingIds}

\* C27: an update call whose routing raises for some sharing entry refits no
\* instance and leaves the ledger and the sharing matrix as they were, and the
\* observations of the entries before the failing one stay appended to their
\* instances, after the observations each instance already held.
C27_NoRollback ==
    [][(IsCall("update") /\ err' # "none") =>
        /\ FailingEntries # {}
        /\ Refits' = {}
        /\ parallel_x' = parallel_x /\ parallel_id' = parallel_id
        /\ sharing_matrix' = sharing_matrix
        /\ LET first == CHOOSE k \in FailingEntries : \A j \in FailingEntries : k <= j
           IN  \A i \in Idx(nb_cost) :
                 LET done == SelectSeq(SubSeq(sharing_matrix, 1, first - 1),
                                       LAMBDA e : e[1] = i)
                     old == Len(optim_list[i].X)
                 IN  /\ optim_list'[i].fits = optim_list[i].fits
                     /\ Len(optim_list'[i].X) = old + Len(done)
                     /\ Len(optim_list'[i].Y) = Len(optim_list[i].Y) + Len(done)
                     /\ SubSeq(optim_list'[i].X, 1, old) = optim_list[i].X
                     /\ SubSeq(optim_list'[i].Y, 1, Len(optim_list[i].Y)) = optim_list[i].Y
                     /\ \A j \in 1..Len(done) :
                          optim_list'[i].X[old + j] = parallel_x[<<done[j][2], done[j][3]>>]
      ]_vars

C27_Witness ==
    /\ LastIs("update") /\ err # "none"
    /\ Appends # {} /\ Refits = {}
    /\ method = "right" /\ nb_cost = 3
    /\ \E i \in Idx(nb_cost) : Len(optim_list[i].X) > 0
    /\ \E i \in Idx(nb_cost) : Len(optim_list[i].X) = 0

\* C28: a next_evaluation_circuits or gen_init_circuits call changes nothing but
\* the ledger and the stored request list: no dataset, no model, not the stored
\* last result; an update or init_optimisers call changes nothing but the
\* datasets, the models and the stored last result: not the ledger, not the
\* request list.  Neither changes the sharing matrix.
C28_Frames ==
    [][/\ (IsCall("next_evaluation_circuits") \/ IsCall("gen_init_circuits")) =>
            /\ optim_list' = optim_list
            /\ last_results_obj' = last_results_obj
            /\ sharing_matrix' = sharing_matrix
       /\ (IsCall("update") \/ IsCall("init_optimisers")) =>
            /\ parallel_x' = parallel_x
            /\ parallel_id' = parallel_id
            /\ circs_to_exec' = circs_to_exec
            /\ next_id' = next_id
            /\ sharing_matrix' = sharing_matrix
      ]_vars

C28_Witness ==
    /\ Len(history) = MaxCalls
    /\ history[1].op = "gen_init_circuits"
    /\ history[2].op = "next_evaluation_circuits" /\ history[2].err = "none"
    /\ LastOk("update")
    /\ Ledger # {} /\ ~circs_to_exec.isNone
    /\ \A i \in Idx(nb_cost) : Len(optim_list[i].X) > 0
    /\ nb_cost = 3 /\ method = "left"

\* C29: every call leaves the pool at one instance per cost object and leaves
\* every observation an instance held where it was, with its point and its
\* value; the point sequence and the value sequence of an instance have the
\* same length after every call.
C29_AppendOnly ==
    [][/\ DOMAIN optim_list' = Idx(nb_cost)
       /\ DOMAIN optim_list' = DOMAIN optim_list
       /\ \A i \in DOMAIN optim_list :
            /\ Len(optim_list'[i].X) >= Len(optim_list[i].X)
            /\ SubSeq(optim_list'[i].X, 1, Len(optim_list[i].X)) = optim_list[i].X
            /\ SubSeq(optim_list'[i].Y, 1, Len(optim_list[i].Y)) = optim_list[i].Y
            /\ Len(optim_list'[i].X) = Len(optim_list'[i].Y)
      ]_vars

C29_Witness ==
    /\ Len(history) = MaxCalls
    /\ OkCalls("init_optimisers") # {} /\ LastOk("update")
    /\ nb_cost = 3 /\ method = "shared"
    /\ \A i \in Idx(nb_cost) : Len(optim_list[i].X) = nb_init + nb_cost
    /\ optim_list[0].X[1] # optim_list[0].X[nb_init + nb_cost]

\* C30: in 'shared' mode with share_init, when the driver has initialised the
\* instances and after each of its rounds of one request and one update, every
\* instance holds the same sequence of points: the nb_init shared init points,
\* then the n points of each round.
C30_SharedX ==
    (method = "shared" /\ share_init
        /\ (LastOk("init_optimisers") \/ LastOk("update"))) =>
        \A i, j \in Idx(nb_cost) :
            /\ optim_list[i].X = optim_list[j].X
            /\ Len(optim_list[i].X) = nb_init + nb_cost * NbUpdates

C30_Witness ==
    /\ method = "shared" /\ share_init /\ nb_cost = 3 /\ nb_init = MaxNbInit
    /\ LastOk("update") /\ NbUpdates = 2
    /\ optim_list[0].X = optim_list[2].X
    /\ optim_list[0].Y # optim_list[2].Y
    /\ optim_list[0].X[1] # optim_list[0].X[2]

\* the call of a BayesianOptim a step has just made
BoLast == bo'.val.log[Len(bo'.val.log)]

\* C31: a BayesianOptim starts uninitialised; while it is uninitialised a
\* request leaves nb_init random points in _last_x; the first update after a
\* request makes the model from exactly those points, with one value per
\* point, and marks the object initialised; an initialised object stays
\* initialised, its requests obtain their points from the model and its
\* updates append the last requested points, with one value per point, to the
\* model's data.
C31_Lifecycle ==
    [][bo' # bo =>
        /\ (bo.val.log = <<>>) => ~bo.val.initialised
        /\ bo.val.initialised => bo'.val.initialised
        /\ (BoLast.op = "next_evaluation_circuits" /\ ~bo.val.initialised) =>
              /\ BoLast.err = "none"
              /\ ~bo'.val.last_x.isNone
              /\ ~bo.val.nb_init.isNone =>
                     Len(bo'.val.last_x.val) = bo.val.nb_init.val
        /\ (BoLast.op = "update" /\ ~bo.val.initialised /\ ~bo.val.last_x.isNone) =>
              /\ BoLast.err = "none"
              /\ bo'.val.initialised
              /\ ~bo'.val.BO.isNone
              /\ bo'.val.BO.val.X = bo.val.last_x.val
              /\ Len(bo'.val.BO.val.Y) = Len(bo.val.last_x.val)
        /\ (BoLast.op = "next_evaluation_circuits" /\ bo.val.initialised) =>
              BoLast.err = "none"
        /\ (BoLast.op = "update" /\ bo.val.initialised) =>
              /\ BoLast.err = "none"
              /\ bo'.val.BO.val.X = bo.val.BO.val.X \o bo.val.last_x.val
              /\ Len(bo'.val.BO.val.Y) = Len(bo'.val.BO.val.X)
      ]_vars

\* C32: in every state the id map and the point map of the ledger have the same
\* keys: every recorded (requester, point) pair has an id and a coordinate
\* vector.
C32_SameKeys == DOMAIN parallel_id = DOMAIN parallel_x

C32_Witness ==
    /\ Len(history) = 2
    /\ history[1].op = "gen_init_circuits"
    /\ LastOk("next_evaluation_circuits")
    /\ method = "independent" /\ nb_cost = 2 /\ nb_init = MaxNbInit /\ ~share_init
    /\ DOMAIN parallel_id = {<<0, 0>>, <<1, 1>>}
    /\ DOMAIN parallel_x = {<<0, 0>>, <<1, 1>>}

====
